---- MODULE Spec2Model ----
(***************************************************************************)
(* Service worker of ponto-eletronico (static/sw.js): the install,         *)
(* activate, fetch and message listeners, run against the host's Cache     *)
(* Storage, network and worker lifecycle.  Every asynchronous step of a    *)
(* listener (a promise callback) is one action, so that listeners of       *)
(* different events interleave exactly at their suspension points.         *)
(*                                                                         *)
(* Host assumptions: cache storage operations (open, keys, delete, match,  *)
(* put, addAll) do not fail by themselves and are atomic; a network fetch  *)
(* either yields a response or fails; requests are GET requests, so a      *)
(* request's key is its URL.  Fetch events may be dispatched at any time:  *)
(* an already active instance of the same script shares the cache storage  *)
(* with the instance being installed or activated.                         *)
(***************************************************************************)
EXTENDS Integers, Sequences, FiniteSets, TLC

\* ------------------------------------------------------------------ bounds
\* number of fetch events dispatched in one behaviour
MaxFetch == 2

\* --------------------------------------------------------------- constants
CACHE_NAME == "ponto-eletronico-v1"

\* stores left behind by earlier versions, in the order of their creation
StaleNames == <<"ponto-eletronico-beta", "ponto-eletronico-v0">>

SELF == "self"
CDN == "https://cdn.jsdelivr.net"

\* A URL is its origin and the segments of its pathname: "/a/b" is <<"a","b">>,
\* "/" is << >>.
Url(o, p) == [origin |-> o, path |-> p]

urlsToCache ==
  << Url(SELF, << >>),
     Url(SELF, <<"login">>),
     Url(SELF, <<"dashboard">>),
     Url(SELF, <<"static", "css", "style.css">>),
     Url(SELF, <<"static", "js", "app.js">>),
     Url(SELF, <<"static", "manifest.json">>),
     Url(CDN, <<"npm", "bootstrap@5.3.2", "dist", "css", "bootstrap.min.css">>),
     Url(CDN, <<"npm", "bootstrap-icons@1.11.1", "font", "bootstrap-icons.css">>),
     Url(CDN, <<"npm", "bootstrap@5.3.2", "dist", "js", "bootstrap.bundle.min.js">>) >>

\* a list cut after its same-origin entries
SeedUrlsSameOrigin == {urlsToCache[k] : k \in 1..6}

\* the requests cache.addAll(urlsToCache) fetches and stores
SeedUrls == {urlsToCache[k] : k \in 1..Len(urlsToCache)}

StyleCss == urlsToCache[4]
BootstrapCss == urlsToCache[7]
AuthLogout == Url(SELF, <<"auth", "logout">>)
PontoRegistrar == Url(SELF, <<"ponto", "registrar">>)
AdminUsuarios == Url(SELF, <<"admin", "usuarios">>)

\* the requests the pages issue
FetchUrls == {AuthLogout, PontoRegistrar, AdminUsuarios, StyleCss, BootstrapCss}

\* --------------------------------------------------------------- responses
None == [none |-> TRUE]

\* src identifies the fetch that produced the response object: the number of
\* the fetch event ("1", "2", ...), "install" for a seed fetch, "old" for one stored by an
\* earlier version, "worker" for one constructed by the script.
Resp(st, ty, ct, b, s) ==
  [status |-> st, type |-> ty, contentType |-> ct, body |-> b, src |-> s]

\* the statuses the servers answer with when they are reached
ServerStatuses(u) ==
  CASE u = AuthLogout -> {200, 401}
    [] u = PontoRegistrar -> {500}
    [] u = AdminUsuarios -> {401}
    [] OTHER -> {200, 404}

\* what the network can answer to a request for url u issued by s: a same-origin
\* response is "basic"; a cross-origin one is "cors", or "opaque" (status 0)
\* when the page asked without CORS
NetResponses(u, s) ==
  IF u.origin = SELF
    THEN {Resp(st, "basic", "net", <<"net", u>>, s) : st \in ServerStatuses(u)}
    ELSE {Resp(200, "cors", "net", <<"net", u>>, s),
          Resp(0, "opaque", "net", <<"net", u>>, s)}

\* JSON.stringify of an object with string members: the members in order
JSONStringify(obj) == <<"json", obj>>

\* new Response(body, {headers}): status defaults to 200, type to "default"
NewResponse(body, headers) ==
  Resp(200, "default", headers[2], body, "worker")

\* response.clone(): a second reader of the same status, headers and payload
Clone(r) == r

\* ---------------------------------------------------------- classification
\* url.pathname.startsWith("/" + seg + "/")
PathStartsWith(u, seg) == Len(u.path) >= 2 /\ u.path[1] = seg

\* IsApi without its first prefix
IsApiNoAuth(u) ==
  \/ PathStartsWith(u, "ponto")
  \/ PathStartsWith(u, "admin")

\* IsApi without its second prefix
IsApiNoPonto(u) ==
  \/ PathStartsWith(u, "auth")
  \/ PathStartsWith(u, "admin")

IsApi(u) ==
  \/ PathStartsWith(u, "auth")
  \/ PathStartsWith(u, "ponto")
  \/ PathStartsWith(u, "admin")

\* the eligibility test without its response.type condition
EligibleAnyType(r) == ~(r = None \/ r.status # 200)

\* the eligibility test of the asset branch (negation of the early return)
Eligible(r) == ~(r = None \/ r.status # 200 \/ r.type # "basic")

\* ------------------------------------------------------------------- state
VARIABLES
  cacheNames,   \* names of the existing stores, in creation order
  store,        \* store[name]: the entries (key -> response) of each store
  worker,       \* lifecycle state of the worker
  skipWaitingFlag, \* set by self.skipWaiting()
  claim,        \* self.clients.claim(): "none", "pending", "done"
  install,      \* the install event
  activate,     \* the activate event
  fetchEv,      \* the fetch events
  msg           \* the last message event handled: << >> or <<payload, called>>

vars == <<cacheNames, store, worker, skipWaitingFlag, claim, install, activate,
          fetchEv, msg>>

Names == {cacheNames[k] : k \in 1..Len(cacheNames)}
Empty == [k \in {} |-> None]

\* caches.open(name): creates the store when it does not exist
OpenNames(name) ==
  IF name \in Names THEN cacheNames ELSE Append(cacheNames, name)
OpenStore(name) ==
  IF name \in Names THEN store ELSE (name :> Empty) @@ store

\* a lookup that never finds an entry
CachesMatchMiss(key) == None

\* caches.match(request): the stores are searched in creation order and the
\* first entry for the key is the answer; None (undefined) when there is none
RECURSIVE MatchFrom(_, _)
MatchFrom(k, key) ==
  IF k > Len(cacheNames) THEN None
  ELSE IF key \in DOMAIN store[cacheNames[k]] THEN store[cacheNames[k]][key]
  ELSE MatchFrom(k + 1, key)
CachesMatch(key) == MatchFrom(1, key)

IdleFetch ==
  [req |-> None, pc |-> "idle", settled |-> "none", returned |-> None,
   net |-> None, netCalls |-> 0, cacheReads |-> 0, put |-> "none"]

OldResp(u) == Resp(200, "basic", "net", <<"net", u>>, "old")

\* what an earlier version has left in its store
StaleContents(n) ==
  IF n = "ponto-eletronico-v0" THEN (StyleCss :> OldResp(StyleCss)) ELSE Empty

\* The worker script has been parsed and no event has been dispatched; the
\* cache storage is empty (first visit) or holds what earlier versions left.
Init ==
  /\ cacheNames \in {<< >>, StaleNames}
  /\ store = [n \in {cacheNames[k] : k \in 1..Len(cacheNames)} |-> StaleContents(n)]
  /\ worker = "parsed"
  /\ skipWaitingFlag = FALSE
  /\ claim = "none"
  /\ install = [pc |-> "none", settled |-> "none", failed |-> {}]
  /\ activate = [pc |-> "none", settled |-> "none", toDelete |-> {}]
  /\ fetchEv = [i \in 1..MaxFetch |-> IdleFetch]
  /\ msg = << >>

\* ----------------------------------------------------------------- install
\* lines 15-25: the listener body: caches.open is started, waitUntil holds the
\* chain, skipWaiting is called before the listener returns
\* an install listener without line 24
InstallKeepsWaiting == FALSE

\* line 24: the install listener calls self.skipWaiting() before it returns
InstallSkipsWaiting == TRUE

InstallDispatch ==
  /\ worker = "parsed"
  /\ worker' = "installing"
  /\ install' = [install EXCEPT !.pc = "open", !.settled = "pending"]
  /\ skipWaitingFlag' = (skipWaitingFlag \/ InstallSkipsWaiting)
  /\ UNCHANGED <<cacheNames, store, claim, activate, fetchEv, msg>>

\* line 17: caches.open(CACHE_NAME) resolves; the callback of line 18 starts
\* cache.addAll(urlsToCache)
InstallOpen ==
  /\ install.pc = "open"
  /\ cacheNames' = OpenNames(CACHE_NAME)
  /\ store' = OpenStore(CACHE_NAME)
  /\ install' = [install EXCEPT !.pc = "addAll"]
  /\ UNCHANGED <<worker, skipWaitingFlag, claim, activate, fetchEv, msg>>

\* a chain without the catch of line 22: the outcome of addAll is the outcome
InstallNoCatch(outcome) == outcome

\* the promise of line 22's catch: a rejection of the chain is logged and the
\* promise handed to waitUntil fulfils
InstallCatch(outcome) == "fulfilled"

\* the worker's state once the promise given to waitUntil has settled
AfterInstall(settled) == IF settled = "fulfilled" THEN "installed" ELSE "redundant"

SeedResponse(u) ==
  Resp(200, IF u.origin = SELF THEN "basic" ELSE "cors", "net", <<"net", u>>, "install")

\* the seed fetches that may fail in an install
FailCandidates == {StyleCss}
FailureSets == SUBSET FailCandidates

\* line 20: cache.addAll(urlsToCache) settles.  addAll fetches every URL and
\* stores the responses only when all of them arrived with an ok status.
\* one cache.add per URL, each storing its response when its fetch succeeds
AddAllPerEntry(entries, failed) ==
  [u \in SeedUrls \ failed |-> SeedResponse(u)] @@ entries

\* line 20: the entries of the store after cache.addAll(urlsToCache) when the
\* fetches of the URLs in failed did not succeed: all are stored, or none
AddAll(entries, failed) ==
  IF failed = {}
    THEN [u \in SeedUrls |-> SeedResponse(u)] @@ entries
    ELSE entries

InstallAddAll ==
  /\ install.pc = "addAll"
  /\ \E failed \in FailureSets :
       /\ store' = [store EXCEPT ![CACHE_NAME] = AddAll(@, failed)]
       /\ LET settled == InstallCatch(IF failed = {} THEN "fulfilled" ELSE "rejected")
          IN /\ install' = [pc |-> "done", settled |-> settled, failed |-> failed]
             /\ worker' = AfterInstall(settled)
  /\ UNCHANGED <<cacheNames, skipWaitingFlag, claim, activate, fetchEv, msg>>

\* ---------------------------------------------------------------- activate
\* lines 28-42: the listener body: caches.keys() is started, waitUntil holds
\* the chain, clients.claim() is called before the listener returns
\* an activate listener without line 41
ActivateNoClaim == "none"

\* line 41: the activate listener calls self.clients.claim() before it returns
ActivateClaim == "pending"

ActivateDispatch ==
  /\ worker = "installed"
  /\ skipWaitingFlag
  /\ worker' = "activating"
  /\ activate' = [activate EXCEPT !.pc = "keys", !.settled = "pending"]
  /\ claim' = ActivateClaim
  /\ UNCHANGED <<cacheNames, store, skipWaitingFlag, install, fetchEv, msg>>

\* line 41: the claim takes effect
ClaimResolve ==
  /\ claim = "pending"
  /\ claim' = "done"
  /\ UNCHANGED <<cacheNames, store, worker, skipWaitingFlag, install, activate,
                 fetchEv, msg>>

\* the comparison of line 33 inverted
IsStaleInverted(cacheName) == cacheName = CACHE_NAME

\* line 33
IsStale(cacheName) == cacheName # CACHE_NAME

\* lines 30-37: caches.keys() resolves; the callback starts one caches.delete
\* for every stale name
ActivateKeys ==
  /\ activate.pc = "keys"
  /\ activate' = [activate EXCEPT !.pc = "deleting",
                                  !.toDelete = {n \in Names : IsStale(n)}]
  /\ UNCHANGED <<cacheNames, store, worker, skipWaitingFlag, claim, install,
                 fetchEv, msg>>

\* line 35: one caches.delete(cacheName) resolves
ActivateDelete ==
  /\ activate.pc = "deleting"
  /\ \E n \in activate.toDelete :
       /\ cacheNames' = SelectSeq(cacheNames, LAMBDA x : x # n)
       /\ store' = [m \in DOMAIN store \ {n} |-> store[m]]
       /\ activate' = [activate EXCEPT !.toDelete = @ \ {n}]
  /\ UNCHANGED <<worker, skipWaitingFlag, claim, install, fetchEv, msg>>

\* line 31: Promise.all fulfils once every delete has resolved
ActivateSettle ==
  /\ activate.pc = "deleting"
  /\ activate.toDelete = {}
  /\ activate' = [activate EXCEPT !.pc = "done", !.settled = "fulfilled"]
  /\ worker' = "activated"
  /\ UNCHANGED <<cacheNames, store, skipWaitingFlag, claim, install, fetchEv, msg>>

\* ------------------------------------------------------------------- fetch
Dispatched(i) == fetchEv[i].pc # "idle"

\* lines 45-66: the listener body.  An api request starts fetch(event.request)
\* and hands the chain to respondWith; any other request starts
\* caches.match(event.request).
FetchDispatch(i, u) ==
  /\ fetchEv[i].pc = "idle"
  /\ \A j \in 1..(i - 1) : Dispatched(j)
  /\ fetchEv' = [fetchEv EXCEPT ![i] =
       IF IsApi(u)
         THEN [@ EXCEPT !.req = u, !.pc = "apiFetch", !.settled = "pending",
                        !.netCalls = @ + 1]
         ELSE [@ EXCEPT !.req = u, !.pc = "matching", !.settled = "pending",
                        !.cacheReads = @ + 1]]
  /\ UNCHANGED <<cacheNames, store, worker, skipWaitingFlag, claim, install,
                 activate, msg>>

\* a chain that takes an HTTP error status for a network failure
ApiOnFulfilOkOnly(r) ==
  IF r.status = 200
    THEN [settled |-> "fulfilled", returned |-> r]
    ELSE [settled |-> "fulfilled",
          returned |-> NewResponse(
                         JSONStringify(<<"error", "Offline - Conecte-se à internet">>),
                         <<"Content-Type", "application/json">>)]

\* lines 53-59: what the chain given to respondWith settles with when the
\* fetch of an api request fulfils with response r: catch passes it on
ApiOnFulfil(r) == [settled |-> "fulfilled", returned |-> r]

\* line 53: the network answers an api request
ApiFetchResponse(i) ==
  /\ fetchEv[i].pc = "apiFetch"
  /\ \E r \in NetResponses(fetchEv[i].req, ToString(i)) :
       fetchEv' = [fetchEv EXCEPT ![i] =
         [@ EXCEPT !.pc = "done", !.net = r, !.returned = ApiOnFulfil(r).returned,
                   !.settled = ApiOnFulfil(r).settled]]
  /\ UNCHANGED <<cacheNames, store, worker, skipWaitingFlag, claim, install,
                 activate, msg>>

\* a chain without the catch of line 54: the rejection reaches respondWith
ApiOnRejectNoCatch == [settled |-> "rejected", returned |-> None]

\* lines 54-59: what the chain given to respondWith settles with when the
\* fetch of an api request rejects
ApiOnReject ==
  [settled |-> "fulfilled",
   returned |-> NewResponse(
                  JSONStringify(<<"error", "Offline - Conecte-se à internet">>),
                  <<"Content-Type", "application/json">>)]

\* line 53 rejects: the network fetch of an api request fails
ApiFetchFail(i) ==
  /\ fetchEv[i].pc = "apiFetch"
  /\ fetchEv' = [fetchEv EXCEPT ![i] =
       [@ EXCEPT !.pc = "done", !.settled = ApiOnReject.settled,
                 !.returned = ApiOnReject.returned]]
  /\ UNCHANGED <<cacheNames, store, worker, skipWaitingFlag, claim, install,
                 activate, msg>>

\* lines 66-71: caches.match resolves; a hit is returned, a miss starts
\* fetch(event.request)
AssetMatch(i) ==
  /\ fetchEv[i].pc = "matching"
  /\ LET response == CachesMatch(fetchEv[i].req)
     IN fetchEv' = [fetchEv EXCEPT ![i] =
          IF response # None
            THEN [@ EXCEPT !.pc = "done", !.returned = response,
                           !.settled = "fulfilled"]
            ELSE [@ EXCEPT !.pc = "netFetch", !.netCalls = @ + 1]]
  /\ UNCHANGED <<cacheNames, store, worker, skipWaitingFlag, claim, install,
                 activate, msg>>

\* lines 73-81: whether the callback of line 71 starts caches.open/cache.put
\* for the response before returning it
StartsPut(response) == Eligible(response)

\* lines 71-84: the network answers an asset request.  The response is
\* returned to the page; for an eligible one caches.open(CACHE_NAME) has been
\* started with a clone, outside the chain given to respondWith.
AssetFetchResponse(i) ==
  /\ fetchEv[i].pc = "netFetch"
  /\ \E r \in NetResponses(fetchEv[i].req, ToString(i)) :
       fetchEv' = [fetchEv EXCEPT ![i] =
         [@ EXCEPT !.pc = "done", !.net = r, !.returned = r,
                   !.settled = "fulfilled",
                   !.put = IF StartsPut(r) THEN "open" ELSE "none"]]
  /\ UNCHANGED <<cacheNames, store, worker, skipWaitingFlag, claim, install,
                 activate, msg>>

\* an asset chain ending in the catch of the api branch
AssetOnRejectFallback ==
  [settled |-> "fulfilled",
   returned |-> NewResponse(
                  JSONStringify(<<"error", "Offline - Conecte-se à internet">>),
                  <<"Content-Type", "application/json">>)]

\* lines 65-86: what the chain given to respondWith settles with when the
\* fetch of an asset request rejects: no callback handles the rejection
AssetOnReject == [settled |-> "rejected", returned |-> None]

\* line 71 rejects: the network fetch of an asset request fails
AssetFetchFail(i) ==
  /\ fetchEv[i].pc = "netFetch"
  /\ fetchEv' = [fetchEv EXCEPT ![i] =
       [@ EXCEPT !.pc = "done", !.settled = AssetOnReject.settled,
                 !.returned = AssetOnReject.returned]]
  /\ UNCHANGED <<cacheNames, store, worker, skipWaitingFlag, claim, install,
                 activate, msg>>

\* line 78: the detached caches.open(CACHE_NAME) resolves
PutOpen(i) ==
  /\ fetchEv[i].put = "open"
  /\ cacheNames' = OpenNames(CACHE_NAME)
  /\ store' = OpenStore(CACHE_NAME)
  /\ fetchEv' = [fetchEv EXCEPT ![i] = [@ EXCEPT !.put = "put"]]
  /\ UNCHANGED <<worker, skipWaitingFlag, claim, install, activate, msg>>

\* line 80: cache.put(event.request, responseToCache) writes the entry
PutWrite(i) ==
  /\ fetchEv[i].put = "put"
  /\ store' = [store EXCEPT ![CACHE_NAME] =
                 (fetchEv[i].req :> Clone(fetchEv[i].net)) @@ @]
  /\ fetchEv' = [fetchEv EXCEPT ![i] = [@ EXCEPT !.put = "stored"]]
  /\ UNCHANGED <<cacheNames, worker, skipWaitingFlag, claim, install, activate, msg>>

\* an event keeps the worker alive while the promise it gave to waitUntil or
\* respondWith is pending
KeepsAlive ==
  \/ install.settled = "pending"
  \/ activate.settled = "pending"
  \/ \E i \in 1..MaxFetch : fetchEv[i].settled = "pending"

\* The host stops an idle worker: callbacks that have not run yet never run,
\* so a detached caches.open whose callback (line 79) is still to come never
\* reaches cache.put.
Terminate ==
  /\ ~KeepsAlive
  /\ \E i \in 1..MaxFetch : fetchEv[i].put = "open"
  /\ fetchEv' = [i \in 1..MaxFetch |->
                   IF fetchEv[i].put = "open"
                     THEN [fetchEv[i] EXCEPT !.put = "lost"]
                     ELSE fetchEv[i]]
  /\ UNCHANGED <<cacheNames, store, worker, skipWaitingFlag, claim, install,
                 activate, msg>>

\* ----------------------------------------------------------------- message
Payloads == {"skipWaiting", "ping"}

\* the condition of line 91 inverted
CallsSkipWaitingInverted(data) == data # "skipWaiting"

\* line 91: whether the listener calls self.skipWaiting() for payload data
CallsSkipWaiting(data) == data = "skipWaiting"

\* lines 90-94: the message listener runs for a message a page has posted;
\* msg keeps the payload and whether the listener called self.skipWaiting()
Message(data) ==
  /\ worker \notin {"parsed", "redundant"}
  /\ msg' = <<data, CallsSkipWaiting(data)>>
  /\ skipWaitingFlag' = (skipWaitingFlag \/ CallsSkipWaiting(data))
  /\ UNCHANGED <<cacheNames, store, worker, claim, install, activate, fetchEv>>

Next ==
  \/ InstallDispatch
  \/ InstallOpen
  \/ InstallAddAll
  \/ ActivateDispatch
  \/ ClaimResolve
  \/ ActivateKeys
  \/ ActivateDelete
  \/ ActivateSettle
  \/ \E i \in 1..MaxFetch, u \in FetchUrls : FetchDispatch(i, u)
  \/ \E i \in 1..MaxFetch : ApiFetchResponse(i)
  \/ \E i \in 1..MaxFetch : ApiFetchFail(i)
  \/ \E i \in 1..MaxFetch : AssetMatch(i)
  \/ \E i \in 1..MaxFetch : AssetFetchResponse(i)
  \/ \E i \in 1..MaxFetch : AssetFetchFail(i)
  \/ \E i \in 1..MaxFetch : PutOpen(i)
  \/ \E i \in 1..MaxFetch : PutWrite(i)
  \/ Terminate
  \/ \E data \in Payloads : Message(data)

Spec == Init /\ [][Next]_vars

\* Every operation the host has started completes: a network fetch answers or
\* fails, a cache operation resolves, a settled install is followed by
\* activation once skipWaiting was called, and a claim takes effect.  Nothing
\* is assumed of the events pages cause, of the detached cache write, nor of
\* the host stopping the worker.
Fairness ==
  /\ WF_vars(InstallOpen)
  /\ WF_vars(InstallAddAll)
  /\ WF_vars(ActivateDispatch)
  /\ WF_vars(ClaimResolve)
  /\ WF_vars(ActivateKeys)
  /\ WF_vars(ActivateDelete)
  /\ WF_vars(ActivateSettle)
  /\ \A i \in 1..MaxFetch :
       /\ WF_vars(ApiFetchResponse(i) \/ ApiFetchFail(i))
       /\ WF_vars(AssetMatch(i))
       /\ WF_vars(AssetFetchResponse(i) \/ AssetFetchFail(i))

FairSpec == Spec /\ Fairness
\* ================================================================== claims
H == 1..MaxFetch

\* the route prefix table of the specification: /auth/, /ponto/, /admin/
ApiPrefixes == {"auth", "ponto", "admin"}
ClassifiedApi(u) == u # None /\ Len(u.path) >= 2 /\ u.path[1] \in ApiPrefixes
ClassifiedAsset(u) == u # None /\ ~ClassifiedApi(u)

OfflineBody == <<"json", <<"error", "Offline - Conecte-se à internet">>>>

HasKey(n, key) == n \in Names /\ key \in DOMAIN store[n]
AllSeedsStored ==
  \A k \in 1..Len(urlsToCache) : HasKey(CACHE_NAME, urlsToCache[k])

\* the fetch event i is over and its network fetch failed
NetworkFailed(i) ==
  fetchEv[i].pc = "done" /\ fetchEv[i].netCalls = 1 /\ fetchEv[i].net = None
\* the fetch event i is over and its network fetch yielded a response
NetworkAnswered(i) == fetchEv[i].pc = "done" /\ fetchEv[i].net # None

\* C1: when the network fetch of an api request fails, respondWith's promise
\* fulfils with a response of a 200-range status, content type
\* application/json and body {"error": "Offline - Conecte-se à internet"}.
C1_ApiOfflineFallback ==
  \A i \in H :
    (ClassifiedApi(fetchEv[i].req) /\ NetworkFailed(i)) =>
      /\ fetchEv[i].settled = "fulfilled"
      /\ fetchEv[i].returned # None
      /\ fetchEv[i].returned.status \in 200..299
      /\ fetchEv[i].returned.contentType = "application/json"
      /\ fetchEv[i].returned.body = OfflineBody

C1_Witness ==
  \E i \in H : fetchEv[i].req = AuthLogout /\ NetworkFailed(i)

\* C2: an api request reaches the network exactly once and never the cache,
\* and a response the network yields, whatever its status, is the response
\* returned to the page.
C2_ApiNetworkVerbatim ==
  \A i \in H :
    (Dispatched(i) /\ ClassifiedApi(fetchEv[i].req)) =>
      /\ fetchEv[i].netCalls = 1
      /\ fetchEv[i].cacheReads = 0
      /\ NetworkAnswered(i) =>
           /\ fetchEv[i].settled = "fulfilled"
           /\ fetchEv[i].returned = fetchEv[i].net

C2_Witness ==
  \E i, j \in H :
    /\ fetchEv[i].req = AdminUsuarios /\ NetworkAnswered(i)
    /\ fetchEv[i].returned.status = 401
    /\ fetchEv[j].req = PontoRegistrar /\ NetworkAnswered(j)
    /\ fetchEv[j].returned.status = 500
    /\ AllSeedsStored

\* C3: no store ever holds an entry under an api request, and an api request
\* never starts a store write.
C3_ApiNeverCached ==
  /\ \A n \in Names : \A key \in DOMAIN store[n] : ~ClassifiedApi(key)
  /\ \A i \in H :
       (Dispatched(i) /\ ClassifiedApi(fetchEv[i].req)) => fetchEv[i].put = "none"

C3_Witness ==
  \E i, j \in H :
    /\ fetchEv[i].req = AuthLogout /\ NetworkAnswered(i)
    /\ fetchEv[i].returned.status = 200
    /\ fetchEv[j].req = PontoRegistrar /\ NetworkFailed(j)
    /\ activate.pc = "done"
    /\ AllSeedsStored

\* the responses stored under key in the existing stores
StoredUnder(key) == {store[n][key] : n \in {m \in Names : key \in DOMAIN store[m]}}

C5_StoredOnceReturned ==
  \A i \in H :
    (/\ ClassifiedAsset(fetchEv[i].req)
     /\ NetworkAnswered(i)
     /\ fetchEv[i].settled = "fulfilled"
     /\ fetchEv[i].net.status = 200
     /\ fetchEv[i].net.type = "basic") => HasKey(CACHE_NAME, fetchEv[i].req)

C7_NoStaleStoreAfterActivate ==
  activate.settled = "fulfilled" => \A n \in Names : n = CACHE_NAME

C7_Witness ==
  /\ activate.settled = "fulfilled"
  /\ Names = {CACHE_NAME}
  /\ \E i \in H : fetchEv[i].returned # None /\ fetchEv[i].returned.src = "old"
  /\ \E i \in H : fetchEv[i].put = "stored"

\* C8: when install has completed and no seed fetch failed, the store named by
\* the current version tag holds a response for every seed URL.
C8_SeedsStoredAfterInstall ==
  (install.pc = "done" /\ install.failed = {}) => AllSeedsStored

C8_Witness ==
  /\ install.pc = "done"
  /\ install.failed = {}
  /\ worker = "installed"

\* C9 as stated: install succeeds only if every seed has been stored.
C9_SuccessOnlyIfSeeded ==
  install.settled = "fulfilled" => AllSeedsStored

\* C9 amended: install always succeeds; with every seed fetch successful all
\* seeds are stored, and with a failed one the install stores nothing while
\* the opened store stays.
C9_InstallAlwaysSucceeds ==
  install.pc = "done" =>
    /\ install.settled = "fulfilled"
    /\ worker \in {"installed", "activating", "activated"}
    /\ CACHE_NAME \in Names
    /\ install.failed = {} => AllSeedsStored
    /\ install.failed # {} =>
         \A n \in Names : \A key \in DOMAIN store[n] : store[n][key].src # "install"

C9_Witness ==
  /\ install.pc = "done"
  /\ install.failed # {}
  /\ worker = "activated"
  /\ ~AllSeedsStored

\* C10 as stated: every fetch event ends with a response.
C10_AlwaysResolves ==
  \A i \in H :
    fetchEv[i].pc = "done" =>
      fetchEv[i].settled = "fulfilled" /\ fetchEv[i].returned # None

\* C10 amended: a fetch event ends with a response, except for an asset
\* request that missed the cache and whose network fetch failed, which ends
\* with a rejection.
C10_ResolvesUnlessAssetNetworkFails ==
  \A i \in H :
    fetchEv[i].pc = "done" =>
      IF ClassifiedAsset(fetchEv[i].req) /\ NetworkFailed(i)
        THEN fetchEv[i].settled = "rejected" /\ fetchEv[i].returned = None
        ELSE fetchEv[i].settled = "fulfilled" /\ fetchEv[i].returned # None

C10_Witness ==
  \E i, j \in H :
    /\ fetchEv[i].req = PontoRegistrar /\ NetworkFailed(i)
    /\ fetchEv[j].req = StyleCss /\ NetworkFailed(j)
\* a message event has been handled with the given payload
Received(data) == msg # << >> /\ msg[1] = data

\* C11: a waiting worker that has received the message 'skipWaiting' becomes
\* active and its claim of the open pages takes effect, with no step of a page
\* in between being needed; the claim is never made before the worker is active.
C11_SkipWaitingPromotes ==
  /\ (worker = "installed" /\ Received("skipWaiting"))
       ~> (worker \in {"activating", "activated"} /\ claim = "done")
  /\ [](claim # "none" => worker \in {"activating", "activated"})

C11_Witness ==
  /\ worker = "installed"
  /\ msg = <<"skipWaiting", TRUE>>
  /\ claim = "none"

\* C12: a message event calls skipWaiting exactly when its payload is
\* 'skipWaiting'; with any other payload the skip-waiting flag, the lifecycle
\* state and the stores stay as they were, and with any payload everything
\* but the flag does.
C12_MessageOnlySkipWaiting ==
  [][msg' # msg =>
       /\ msg'[2] <=> (msg'[1] = "skipWaiting")
       /\ msg'[2] => skipWaitingFlag'
       /\ ~msg'[2] => skipWaitingFlag' = skipWaitingFlag
       /\ UNCHANGED <<cacheNames, store, worker, claim, install, activate,
                      fetchEv>>]_vars

C12_Witness ==
  /\ msg = <<"ping", FALSE>>
  /\ worker = "installed"
  /\ skipWaitingFlag

\* C13: an asset request that missed the cache and whose network fetch failed
\* ends with a rejection, without a response and without a store write.
C13_AssetFailurePropagates ==
  \A i \in H :
    (ClassifiedAsset(fetchEv[i].req) /\ NetworkFailed(i)) =>
      /\ fetchEv[i].settled = "rejected"
      /\ fetchEv[i].returned = None
      /\ fetchEv[i].put = "none"
      /\ \A n \in Names : \A key \in DOMAIN store[n] :
           store[n][key].src \notin {"worker", ToString(i)}

C13_Witness ==
  \E i \in H :
    /\ fetchEv[i].req = BootstrapCss
    /\ NetworkFailed(i)
    /\ CACHE_NAME \in Names

\* C14: after an install in which a seed fetch failed, the promise given to
\* waitUntil has fulfilled, the worker is installed or further, and while it
\* is installed its activation can start.
C14_SeedFailureNotFatal ==
  (install.pc = "done" /\ install.failed # {}) =>
    /\ install.settled = "fulfilled"
    /\ worker \in {"installed", "activating", "activated"}
    /\ worker = "installed" => ENABLED ActivateDispatch

C14_Witness ==
  /\ install.failed # {}
  /\ install.settled = "fulfilled"
  /\ activate.settled = "fulfilled"

\* C15 as stated: after install, every seed whose fetch succeeded is stored.
C15_SucceededSeedsStored ==
  install.pc = "done" =>
    \A u \in {urlsToCache[k] : k \in 1..Len(urlsToCache)} \ install.failed :
      HasKey(CACHE_NAME, u)

\* C15 amended: after an install in which a seed fetch failed, the install has
\* not been undone (it succeeded and its store exists) and the store holds no
\* seed response of that install.
C15_SeedsAllOrNothing ==
  (install.pc = "done" /\ install.failed # {}) =>
    /\ install.settled = "fulfilled"
    /\ CACHE_NAME \in Names
    /\ \A key \in DOMAIN store[CACHE_NAME] : store[CACHE_NAME][key].src # "install"

C15_Witness ==
  /\ install.pc = "done"
  /\ install.failed = {StyleCss}
  /\ CACHE_NAME \in Names
  /\ ~HasKey(CACHE_NAME, urlsToCache[1])

\* C16: whenever the claim of the open pages has been made, no store named
\* otherwise than by the current version tag exists.
C16_DeleteBeforeClaim ==
  claim # "none" => \A n \in Names : n = CACHE_NAME

\* C17 as stated: skipWaiting has been called only when the install's cache
\* open and seeding are over.
C17_PromotionAfterSeeding ==
  skipWaitingFlag => install.pc = "done"

\* C17 amended: skipWaiting has been called as soon as the install listener
\* has run, while the cache open and seeding are in progress; the activate
\* event is dispatched only when they are over.
C17_RequestedAtDispatch ==
  /\ install.pc \in {"open", "addAll"} => (skipWaitingFlag /\ worker = "installing")
  /\ (worker \in {"activating", "activated"} \/ activate.pc # "none" \/ claim # "none")
       => install.pc = "done"

C17_Witness ==
  /\ install.pc = "addAll"
  /\ skipWaitingFlag
  /\ msg = << >>

\* C18: once the promise an event gave to waitUntil or respondWith has
\* settled, the event has no cache open, store write, deletion or claim
\* outstanding, and no write is lost.
C18_SignalCoversWork ==
  /\ \A i \in H :
       fetchEv[i].settled \in {"fulfilled", "rejected"} =>
         fetchEv[i].put \notin {"open", "put", "lost"}
  /\ install.settled \in {"fulfilled", "rejected"} => install.pc = "done"
  /\ activate.settled \in {"fulfilled", "rejected"} =>
       (activate.toDelete = {} /\ claim # "pending")

\* C19: a lookup that ends a fetch event with a cached response finds the
\* request's key in the store named by the current version tag and returns
\* that store's entry.
C19_HitFromCurrentStoreOnly ==
  [][\A i \in H :
       (fetchEv[i].pc = "matching" /\ fetchEv'[i].pc = "done") =>
         /\ HasKey(CACHE_NAME, fetchEv[i].req)
         /\ fetchEv'[i].returned = store[CACHE_NAME][fetchEv[i].req]]_vars

\* C20: when every network fetch and cache operation completes, a dispatched
\* api request ends with a response and a dispatched asset request ends with a
\* response or a rejection.
C20_FetchSettles ==
  \A i \in H :
    /\ (Dispatched(i) /\ ClassifiedApi(fetchEv[i].req))
         ~> (fetchEv[i].settled = "fulfilled" /\ fetchEv[i].returned # None)
    /\ (Dispatched(i) /\ ClassifiedAsset(fetchEv[i].req))
         ~> (fetchEv[i].settled \in {"fulfilled", "rejected"})

C20_Witness ==
  \E i, j \in H :
    /\ fetchEv[i].req = AdminUsuarios /\ fetchEv[i].settled = "fulfilled"
    /\ fetchEv[i].net = None
    /\ fetchEv[j].req = BootstrapCss /\ fetchEv[j].settled = "rejected"
====
